---- MODULE Spec2Model ----
(***************************************************************************)
(* Receipt processor (fetch-points.go): the validation pipeline of         *)
(* processReceipts, the scoring rules of calculatePoints, and the          *)
(* identifier -> points map shared by the two HTTP handlers.               *)
(*                                                                         *)
(* A Go string is the sequence of its bytes (integers 0..255, text in      *)
(* UTF-8), so that len, TrimSpace, Split, Atoi, ParseFloat and Sprintf are *)
(* computed byte by byte. Bytes("abc") is the byte sequence of a text.     *)
(*                                                                         *)
(* ParseFloat decides every string as strconv does (syntax, range). The    *)
(* float64 it returns is kept by kind: "num" is a finite number kept       *)
(* exactly as sign, mantissa and number of fractional digits (up to eight  *)
(* significant digits and eight fractional digits; on these the float64    *)
(* results of the scoring rules equal the exact ones), "inf" and "nan" are *)
(* the infinities and the NaN, and "wide" is a finite number outside the   *)
(* exact range, whose digits the model does not keep. A score that depends *)
(* on a "wide" number, or on the conversion of an infinity, a NaN or an    *)
(* out-of-range number to int (implementation-dependent in Go), is marked  *)
(* as not exact instead of being given a value.                            *)
(*                                                                         *)
(* Only({e(v) : v \in {x}}) is e(x) with x evaluated once.                 *)
(***************************************************************************)
EXTENDS Integers, Sequences, FiniteSets, TLC

VARIABLES receipts, req, resp, handed, handlers, fatal

vars == <<receipts, req, resp, handed, handlers, fatal>>

----------------------------------------------------------------------------
(* Bytes *)

\* The printable ASCII characters of the codes 32..95 and 97..126, in the
\* order of their codes.
AsciiLow == " !\"#$%&'()*+,-./0123456789:;<=>?@ABCDEFGHIJKLMNOPQRSTUVWXYZ[\\]^_"

AsciiHigh == "abcdefghijklmnopqrstuvwxyz{|}~"

ByteOf ==
    [c \in {SubSeq(AsciiLow, k, k) : k \in 1..Len(AsciiLow)}
            \cup {SubSeq(AsciiHigh, k, k) : k \in 1..Len(AsciiHigh)} |->
        IF \E k \in 1..Len(AsciiLow) : SubSeq(AsciiLow, k, k) = c
        THEN 31 + (CHOOSE k \in 1..Len(AsciiLow) : SubSeq(AsciiLow, k, k) = c)
        ELSE 96 + (CHOOSE k \in 1..Len(AsciiHigh) :
                      SubSeq(AsciiHigh, k, k) = c)]

\* The code of a printable ASCII character.
Byte(c) == ByteOf[c]

\* The bytes of a text of printable ASCII characters.
Bytes(t) == [i \in 1..Len(t) |-> Byte(SubSeq(t, i, i))]

\* The element of a set of one element.
Only(S) == CHOOSE x \in S : TRUE

Min(S) == Only({CHOOSE x \in T : \A y \in T : x <= y : T \in {S}})

Max(S) == Only({CHOOSE x \in T : \A y \in T : x >= y : T \in {S}})

\* '0' <= c && c <= '9'
IsDigit(c) == c >= Byte("0") /\ c <= Byte("9")

\* strconv's lower(c): c | ('x' - 'X').
lower(c) == IF (c \div 32) % 2 = 0 THEN c + 32 ELSE c

\* 'a' <= lower(c) && lower(c) <= 'f'
IsHexLetter(c) == lower(c) >= Byte("a") /\ lower(c) <= Byte("f")

RECURSIVE Pow(_, _)
Pow(b, n) == IF n = 0 THEN 1 ELSE b * Pow(b, n - 1)

Pow10(n) == Pow(10, n)

\* The value of the first n of a sequence of digit values in base b.
RECURSIVE DigitsValTo(_, _, _)
DigitsValTo(ds, n, b) ==
    IF n = 0 THEN 0 ELSE b * DigitsValTo(ds, n - 1, b) + ds[n]

\* The value of a sequence of digit values in base b (0 for the empty one).
DigitsVal(ds, b) == Only({DigitsValTo(v, Len(v), b) : v \in {ds}})

\* The sequence without its leading zeros.
StripLeadingZeros(ds) ==
    Only({LET nz == {i \in 1..Len(v) : v[i] # 0}
          IN  IF nz = {} THEN <<>> ELSE SubSeq(v, Min(nz), Len(v)) :
          v \in {ds}})

\* The sequence without its trailing zeros.
StripTrailingZeros(ds) ==
    Only({LET nz == {i \in 1..Len(v) : v[i] # 0}
          IN  IF nz = {} THEN <<>> ELSE SubSeq(v, 1, Max(nz)) :
          v \in {ds}})

\* The decimal digits of a natural number, without leading zeros ("0" for 0).
RECURSIVE NatToStr(_)
NatToStr(n) ==
    IF n < 10 THEN <<Byte("0") + n>>
    ELSE NatToStr(n \div 10) \o <<Byte("0") + (n % 10)>>

----------------------------------------------------------------------------
(* strings.TrimSpace, strings.Split, strconv.Atoi *)

\* unicode.IsSpace, as the UTF-8 encodings of the white space characters:
\* \t \n \v \f \r and the space, U+0085, U+00A0, U+1680, U+2000..U+200A,
\* U+2028, U+2029, U+202F, U+205F, U+3000.
Space ==
    {<<9>>, <<10>>, <<11>>, <<12>>, <<13>>, <<32>>,
     <<194, 133>>, <<194, 160>>, <<225, 154, 128>>}
    \cup {<<226, 128, b>> : b \in 128..138}
    \cup {<<226, 128, 168>>, <<226, 128, 169>>, <<226, 128, 175>>,
          <<226, 129, 159>>, <<227, 128, 128>>}

HasPrefix(s, p) == Len(s) >= Len(p) /\ SubSeq(s, 1, Len(p)) = p

HasSuffix(s, p) ==
    Len(s) >= Len(p) /\ SubSeq(s, Len(s) - Len(p) + 1, Len(s)) = p

\* strings.TrimSpace: the string without its leading, then without its
\* trailing white space characters. A byte that is no part of a well-formed
\* encoding of a white space character stops the trimming.
RECURSIVE TrimSpace(_)
TrimSpace(s) ==
    Only({IF \E w \in Space : HasPrefix(v, w)
          THEN LET w == CHOOSE w \in Space : HasPrefix(v, w)
               IN  TrimSpace(SubSeq(v, Len(w) + 1, Len(v)))
          ELSE IF \E w \in Space : HasSuffix(v, w)
          THEN LET w == CHOOSE w \in Space : HasSuffix(v, w)
               IN  TrimSpace(SubSeq(v, 1, Len(v) - Len(w)))
          ELSE v :
          v \in {s}})

\* strings.Split(s, sep) for a one-byte separator: the fields between the
\* separators; a string without separator (the empty one too) is one field.
RECURSIVE Split(_, _)
Split(s, sep) ==
    Only({LET at == {i \in 1..Len(v) : v[i] = sep}
          IN  IF at = {} THEN <<v>>
              ELSE <<SubSeq(v, 1, Min(at) - 1)>>
                   \o Split(SubSeq(v, Min(at) + 1, Len(v)), sep) :
          v \in {s}})

\* The digits of math.MaxInt64 and of -math.MinInt64.
MaxInt64Digits ==
    <<9, 2, 2, 3, 3, 7, 2, 0, 3, 6, 8, 5, 4, 7, 7, 5, 8, 0, 7>>

MinInt64Digits ==
    <<9, 2, 2, 3, 3, 7, 2, 0, 3, 6, 8, 5, 4, 7, 7, 5, 8, 0, 8>>

\* The digit sequence ds, read as a number, is at most the number of the
\* digit sequence limit (neither has leading zeros).
AtMost(ds, limit) ==
    \/ Len(ds) < Len(limit)
    \/ /\ Len(ds) = Len(limit)
       /\ LET diff == {i \in 1..Len(ds) : ds[i] # limit[i]}
          IN  diff = {} \/ ds[Min(diff)] < limit[Min(diff)]

\* strconv.Atoi with a 64-bit int: an optional sign and at least one decimal
\* digit, the number within the range of int64. val is the number when it has
\* at most nine digits (small); odd is its parity.
Atoi(s) ==
    Only({LET signed == Len(v) > 0 /\ v[1] \in {Byte("+"), Byte("-")}
              neg    == signed /\ v[1] = Byte("-")
              first  == IF signed THEN 2 ELSE 1
              syntax == Len(v) >= first
                        /\ \A i \in first..Len(v) : IsDigit(v[i])
          IN  Only({LET ok    == syntax /\ AtMost(ds, IF neg THEN MinInt64Digits
                                                     ELSE MaxInt64Digits)
                        small == ok /\ Len(ds) <= 9
                    IN  [ok    |-> ok,
                         small |-> small,
                         val   |-> IF ~small THEN 0
                                   ELSE IF neg THEN 0 - DigitsVal(ds, 10)
                                   ELSE DigitsVal(ds, 10),
                         odd   |-> ok /\ ds # <<>> /\ ds[Len(ds)] % 2 = 1] :
                    ds \in {IF syntax
                            THEN StripLeadingZeros(
                                     [i \in 1..(Len(v) - first + 1) |->
                                         v[first + i - 1] - Byte("0")])
                            ELSE <<>>}}) :
          v \in {s}})

----------------------------------------------------------------------------
(* strconv.ParseFloat(s, 64) *)

\* A float64: a finite number (neg ? -1 : 1) * mant / 10^scale of kind "num",
\* an infinity of the sign neg ("inf"), the NaN ("nan"), or a finite number
\* the model keeps no digits of ("wide").
Float(ok, kind, neg, mant, scale) ==
    [ok |-> ok, kind |-> kind, neg |-> neg, mant |-> mant, scale |-> scale]

\* The 0 ParseFloat returns next to a syntax error.
SyntaxError == Float(FALSE, "num", FALSE, 0, 0)

\* strconv's commonPrefixLenIgnoreCase(s, prefix), prefix in lower case.
commonPrefixLenIgnoreCase(s, prefix) ==
    LET n       == Min({Len(s), Len(prefix)})
        fold(c) == IF c >= Byte("A") /\ c <= Byte("Z") THEN c + 32 ELSE c
    IN  Max({k \in 0..n : \A i \in 1..k : fold(s[i]) = prefix[i]})

\* strconv's special(s): "inf" and "infinity" with an optional sign, "nan"
\* without a sign, in any case of the letters. n is the number of bytes read.
special(s) ==
    LET signed == Len(s) > 0 /\ s[1] \in {Byte("+"), Byte("-")}
        nsign  == IF signed THEN 1 ELSE 0
        rest   == IF signed THEN Tail(s) ELSE s
        inf    == commonPrefixLenIgnoreCase(rest, Bytes("infinity"))
        ninf   == IF 3 < inf /\ inf < 8 THEN 3 ELSE inf
    IN  IF Len(s) = 0 THEN [ok |-> FALSE, kind |-> "num", neg |-> FALSE, n |-> 0]
        ELSE IF (signed \/ lower(s[1]) = Byte("i")) /\ ninf \in {3, 8}
        THEN [ok |-> TRUE, kind |-> "inf", neg |-> s[1] = Byte("-"),
              n |-> nsign + ninf]
        ELSE IF lower(s[1]) = Byte("n")
                /\ commonPrefixLenIgnoreCase(s, Bytes("nan")) = 3
        THEN [ok |-> TRUE, kind |-> "nan", neg |-> FALSE, n |-> 3]
        ELSE [ok |-> FALSE, kind |-> "num", neg |-> FALSE, n |-> 0]

\* strconv's underscoreOK(s): an underscore stands between two digits, or
\* between the base prefix and a digit.
underscoreOK(s) ==
    LET signed == Len(s) >= 1 /\ s[1] \in {Byte("+"), Byte("-")}
        t      == IF signed THEN Tail(s) ELSE s
        prefix == Len(t) >= 2 /\ t[1] = Byte("0")
                  /\ lower(t[2]) \in {Byte("b"), Byte("o"), Byte("x")}
        hex    == prefix /\ lower(t[2]) = Byte("x")
        start  == IF prefix THEN 3 ELSE 1
        Dig(k) == IsDigit(t[k]) \/ (hex /\ IsHexLetter(t[k]))
    IN  \A k \in start..Len(t) :
            t[k] = Byte("_") =>
                /\ (k = start /\ prefix) \/ (k > start /\ Dig(k - 1))
                /\ k < Len(t) /\ Dig(k + 1)

\* e = e*10 + digit while e < 10000, over the first n digits of the exponent.
RECURSIVE ExponentValTo(_, _)
ExponentValTo(ds, n) ==
    IF n = 0 THEN 0
    ELSE Only({IF e < 10000 THEN e * 10 + ds[n] ELSE e :
               e \in {ExponentValTo(ds, n - 1)}})

\* The value of a digit byte or a hexadecimal letter.
HexVal(c) == IF IsDigit(c) THEN c - Byte("0") ELSE lower(c) - Byte("a") + 10

\* The end of the mantissa: the first position from k on that holds no
\* underscore, digit or point, or holds a second point.
RECURSIVE MantissaEnd(_, _, _, _)
MantissaEnd(s, k, hex, sawdot) ==
    IF k > Len(s) THEN k
    ELSE IF s[k] = Byte(".")
    THEN (IF sawdot THEN k ELSE MantissaEnd(s, k + 1, hex, TRUE))
    ELSE IF s[k] = Byte("_") \/ IsDigit(s[k]) \/ (hex /\ IsHexLetter(s[k]))
    THEN MantissaEnd(s, k + 1, hex, sawdot)
    ELSE k

\* The end of the exponent digits: the first position from k on that holds no
\* digit or underscore.
RECURSIVE ExponentEnd(_, _)
ExponentEnd(s, k) ==
    IF k <= Len(s) /\ (IsDigit(s[k]) \/ s[k] = Byte("_"))
    THEN ExponentEnd(s, k + 1)
    ELSE k

\* strconv's readFloat(s): an optional sign, an optional 0x, mantissa digits
\* with underscores and at most one point, an exponent (e for decimal digits,
\* p and not to be left out for hexadecimal ones) with an optional sign and
\* at least one digit. digits are the values of the mantissa digits in
\* sequence, frac the number of them behind the point, e the exponent read
\* and n the number of bytes read.
readFloat(s) ==
    LET signed == Len(s) >= 1 /\ s[1] \in {Byte("+"), Byte("-")}
        i0     == IF signed THEN 2 ELSE 1
        hex    == /\ i0 + 2 <= Len(s)
                  /\ s[i0] = Byte("0")
                  /\ lower(s[i0 + 1]) = Byte("x")
        m0     == IF hex THEN i0 + 2 ELSE i0
        IsDig(c) == IsDigit(c) \/ (hex /\ IsHexLetter(c))
    IN  Only({
          LET digitAt == {k \in m0..(mEnd - 1) : IsDig(s[k])}
              dotAt   == {k \in m0..(mEnd - 1) : s[k] = Byte(".")}
              hasExp  == mEnd <= Len(s)
                         /\ lower(s[mEnd]) =
                               (IF hex THEN Byte("p") ELSE Byte("e"))
              esigned == mEnd + 1 <= Len(s)
                         /\ s[mEnd + 1] \in {Byte("+"), Byte("-")}
              e0      == IF esigned THEN mEnd + 2 ELSE mEnd + 1
              expOK   == e0 <= Len(s) /\ IsDigit(s[e0])
          IN  Only({
                LET n  == IF hasExp THEN eEnd - 1 ELSE mEnd - 1
                    ok == /\ digitAt # {}
                          /\ IF hasExp THEN expOK ELSE ~hex
                          /\ (\E k \in 1..n : s[k] = Byte("_"))
                                => underscoreOK(SubSeq(s, 1, n))
                IN  Only({
                      [ok     |-> ok,
                       neg    |-> signed /\ s[1] = Byte("-"),
                       hex    |-> hex,
                       digits |-> [i \in 1..Len(mant) |-> HexVal(mant[i])],
                       frac   |-> Cardinality({k \in digitAt :
                                                 \E d \in dotAt : k > d}),
                       e      |-> IF ~(ok /\ hasExp) THEN 0
                                  ELSE IF s[mEnd + 1] = Byte("-")
                                  THEN 0 - ExponentValTo(edigits, Len(edigits))
                                  ELSE ExponentValTo(edigits, Len(edigits)),
                       n      |-> IF ok THEN n ELSE 0] :
                      mant \in {SelectSeq(SubSeq(s, m0, mEnd - 1), IsDig)},
                      edigits \in {IF hasExp /\ expOK
                                   THEN LET ds == SelectSeq(
                                                     SubSeq(s, e0, eEnd - 1),
                                                     IsDigit)
                                        IN  [i \in 1..Len(ds) |->
                                                ds[i] - Byte("0")]
                                   ELSE <<>>}}) :
                eEnd \in {IF hasExp /\ expOK THEN ExponentEnd(s, e0)
                          ELSE mEnd}}) :
          mEnd \in {MantissaEnd(s, m0, hex, FALSE)}})

\* The decimal digits of 2^1024 - 2^970, half a unit in the last place above
\* the largest float64: a number from there on up rounds to an infinity, and
\* ParseFloat returns it with a range error.
OverflowThreshold ==
    <<1, 7, 9, 7, 6, 9, 3, 1, 3, 4, 8, 6, 2, 3, 1, 5, 8, 0, 7, 9, 3, 7, 2,
      8, 9, 7, 1, 4, 0, 5, 3, 0, 3, 4, 1, 5, 0, 7, 9, 9, 3, 4, 1, 3, 2, 7,
      1, 0, 0, 3, 7, 8, 2, 6, 9, 3, 6, 1, 7, 3, 7, 7, 8, 9, 8, 0, 4, 4, 4,
      9, 6, 8, 2, 9, 2, 7, 6, 4, 7, 5, 0, 9, 4, 6, 6, 4, 9, 0, 1, 7, 9, 7,
      7, 5, 8, 7, 2, 0, 7, 0, 9, 6, 3, 3, 0, 2, 8, 6, 4, 1, 6, 6, 9, 2, 8,
      8, 7, 9, 1, 0, 9, 4, 6, 5, 5, 5, 5, 4, 7, 8, 5, 1, 9, 4, 0, 4, 0, 2,
      6, 3, 0, 6, 5, 7, 4, 8, 8, 6, 7, 1, 5, 0, 5, 8, 2, 0, 6, 8, 1, 9, 0,
      8, 9, 0, 2, 0, 0, 0, 7, 0, 8, 3, 8, 3, 6, 7, 6, 2, 7, 3, 8, 5, 4, 8,
      4, 5, 8, 1, 7, 7, 1, 1, 5, 3, 1, 7, 6, 4, 4, 7, 5, 7, 3, 0, 2, 7, 0,
      0, 6, 9, 8, 5, 5, 5, 7, 1, 3, 6, 6, 9, 5, 9, 6, 2, 2, 8, 4, 2, 9, 1,
      4, 8, 1, 9, 8, 6, 0, 8, 3, 4, 9, 3, 6, 4, 7, 5, 2, 9, 2, 7, 1, 9, 0,
      7, 4, 1, 6, 8, 4, 4, 4, 3, 6, 5, 5, 1, 0, 7, 0, 4, 3, 4, 2, 7, 1, 1,
      5, 5, 9, 6, 9, 9, 5, 0, 8, 0, 9, 3, 0, 4, 2, 8, 8, 0, 1, 7, 7, 9, 0,
      4, 1, 7, 4, 4, 9, 7, 7, 9, 2>>

\* The number 0.d1 d2 ... * 10^dp of the digits ds (d1 not 0) is at least
\* 2^1024 - 2^970.
DecimalOverflows(ds, dp) ==
    LET d(i) == IF i <= Len(ds) THEN ds[i] ELSE 0
        diff == {i \in 1..Len(OverflowThreshold) : d(i) # OverflowThreshold[i]}
    IN  \/ dp > Len(OverflowThreshold)
        \/ /\ dp = Len(OverflowThreshold)
           /\ diff = {} \/ d(Min(diff)) > OverflowThreshold[Min(diff)]

\* The bits of a sequence of hexadecimal digit values, leading zeros dropped.
HexBits(hs) ==
    StripLeadingZeros([i \in 1..(4 * Len(hs)) |->
        (hs[(i + 3) \div 4] \div Pow(2, 3 - ((i - 1) % 4))) % 2])

\* The float64 of a decimal mantissa: digits * 10^(e - frac).
DecimalValue(rf) ==
    Only({
      Only({
        LET x == rf.e - rf.frac + (Len(lead) - Len(sig))
        IN  IF sig = <<>> THEN Float(TRUE, "num", rf.neg, 0, 0)
            ELSE IF DecimalOverflows(lead, Len(lead) - rf.frac + rf.e)
            THEN Float(FALSE, "inf", rf.neg, 0, 0)
            ELSE IF Len(sig) <= 8 /\ x >= 0 /\ Len(sig) + x <= 8
            THEN Float(TRUE, "num", rf.neg, DigitsVal(sig, 10) * Pow10(x), 0)
            ELSE IF Len(sig) <= 8 /\ x < 0 /\ x >= 0 - 8
            THEN Float(TRUE, "num", rf.neg, DigitsVal(sig, 10), 0 - x)
            ELSE Float(TRUE, "wide", rf.neg, 0, 0) :
        sig \in {StripTrailingZeros(lead)}}) :
      lead \in {StripLeadingZeros(rf.digits)}})

\* The odd part and the exponent of m * 2^x for x < 0: m halved and x raised
\* while m is even.
RECURSIVE Halved(_, _)
Halved(m, x) ==
    IF x < 0 /\ m % 2 = 0 THEN Halved(m \div 2, x + 1)
    ELSE [m |-> m, x |-> x]

\* strconv's atofHex: the float64 of a hexadecimal mantissa, of which the
\* first 16 digits are kept and the others rounded: kept * 2^(4 * (number of
\* digits not kept - frac) + e). The range error is that of a number whose 53
\* leading bits, rounded to even, reach 2^1024.
HexValue(rf) ==
    Only({
      LET kept  == SubSeq(lead, 1, Min({Len(lead), 16}))
          trunc == \E i \in 17..Len(lead) : lead[i] # 0
          exp   == 4 * (Len(lead) - Len(kept) - rf.frac) + rf.e
      IN  Only({
            LET top == Len(bits) + exp
                x   == exp + 4 * (Len(kept) - Len(sig))
            IN  IF kept = <<>> THEN Float(TRUE, "num", rf.neg, 0, 0)
                ELSE IF \/ top > 1024
                        \/ /\ top = 1024
                           /\ Len(bits) >= 54
                           /\ \A i \in 1..54 : bits[i] = 1
                THEN Float(FALSE, "inf", rf.neg, 0, 0)
                ELSE IF trunc \/ Len(sig) > 6
                THEN Float(TRUE, "wide", rf.neg, 0, 0)
                ELSE Only({
                  IF x >= 0 /\ x <= 26 /\ h.m <= 99999999 \div Pow(2, x)
                  THEN Float(TRUE, "num", rf.neg, h.m * Pow(2, x), 0)
                  ELSE IF x < 0 /\ h.x >= 0 - 8
                          /\ h.m <= 99999999 \div Pow(5, 0 - h.x)
                  THEN Float(TRUE, "num", rf.neg, h.m * Pow(5, 0 - h.x),
                             0 - h.x)
                  ELSE Float(TRUE, "wide", rf.neg, 0, 0) :
                  h \in {Halved(DigitsVal(sig, 16), x)}}) :
            bits \in {HexBits(kept)}, sig \in {StripTrailingZeros(kept)}}) :
      lead \in {StripLeadingZeros(rf.digits)}})

\* strconv.ParseFloat(s, 64): the float64 of s and ok for a nil error. All of
\* s has to be read; a syntax error returns 0 and a range error the infinity.
ParseFloat(s) ==
    Only({
      Only({
        IF sp.ok
        THEN IF sp.n = Len(v) THEN Float(TRUE, sp.kind, sp.neg, 0, 0)
             ELSE SyntaxError
        ELSE Only({
          IF ~rf.ok \/ rf.n # Len(v) THEN SyntaxError
          ELSE IF rf.hex THEN HexValue(rf)
          ELSE DecimalValue(rf) :
          rf \in {readFloat(v)}}) :
        sp \in {special(v)}}) :
      v \in {s}})

----------------------------------------------------------------------------
(* fmt.Sprintf("%.2f", price) and int(math.Ceil(price * 0.2)) *)

\* The number of bits of a positive integer.
RECURSIVE BitLen(_)
BitLen(n) == IF n = 0 THEN 0 ELSE 1 + BitLen(n \div 2)

\* v * 2^e modulo d, by doubling.
RECURSIVE DoubledMod(_, _, _)
DoubledMod(v, e, d) == IF e = 0 THEN v % d ELSE DoubledMod((2 * v) % d, e - 1, d)

\* The number of doublings that take m > 0 to d or above.
RECURSIVE Doublings(_, _)
Doublings(m, d) == IF m >= d THEN 0 ELSE 1 + Doublings(2 * m, d)

\* The side of the exact number mant / 10^scale on which its float64 lies:
\* 0 when the float64 is the number, 1 when it is above and -1 when it is
\* below. The float64 is the nearest q * 2^(-e) with 2^52 <= q < 2^53, so the
\* side is read off the remainder of mant * 2^e divided by 10^scale.
Float64Side(mant, scale) ==
    LET d == Pow10(scale)
        k == IF mant >= d THEN BitLen(mant \div d) - 1
             ELSE 0 - Doublings(mant, d)
        r == DoubledMod(mant % d, 52 - k, d)
    IN  IF mant = 0 THEN 0
        ELSE IF r = 0 THEN 0
        ELSE IF 2 * r > d THEN 1
        ELSE 0 - 1

\* The text of a number the model keeps no digits of.
NoDigits == <<>>

\* fmt.Sprintf("%.2f", price): sign, integer digits, point, two fractional
\* digits. Further digits are rounded on the float64 of the price, not on its
\* decimal text: a text with 5 as its last, third fractional digit goes up or
\* down with the side on which the float64 lies, and to the even hundredth
\* when the float64 is the number itself. An infinity prints as +Inf or -Inf
\* and the NaN as NaN.
FormatPrice(p) ==
    LET d     == Pow10(p.scale)
        whole == p.mant \div d
        part  == p.mant % d
        low   == IF p.scale <= 2 THEN 1 ELSE Pow10(p.scale - 2)
        cents == IF p.scale <= 2 THEN part * Pow10(2 - p.scale)
                 ELSE part \div low
        rest  == IF p.scale <= 2 THEN 0 ELSE part % low
        side  == Float64Side(p.mant, p.scale)
        up    == \/ 2 * rest > low
                 \/ /\ 2 * rest = low
                    /\ side = 1 \/ (side = 0 /\ cents % 2 = 1)
        c     == IF p.scale > 2 /\ up THEN cents + 1 ELSE cents
    IN  IF p.kind = "nan" THEN Bytes("NaN")
        ELSE IF p.kind = "inf"
        THEN (IF p.neg THEN Bytes("-Inf") ELSE Bytes("+Inf"))
        ELSE IF p.kind = "wide" THEN NoDigits
        ELSE (IF p.neg THEN Bytes("-") ELSE <<>>)
             \o NatToStr(whole + c \div 100)
             \o <<Byte("."), Byte("0") + ((c \div 10) % 10),
                  Byte("0") + (c % 10)>>

\* int(math.Ceil(price * 0.2)) for a price of kind "num": the least integer
\* >= price / 5.
CeilFifth(p) ==
    LET den == 5 * Pow10(p.scale)
    IN  IF p.neg THEN 0 - (p.mant \div den)
        ELSE (p.mant + den - 1) \div den

----------------------------------------------------------------------------
(* Inputs *)

\* The longest item sequence of a drawn receipt.
MaxItems == 2

\* The identifiers uuid.New can return.
MaxIds == 3

\* The request handlers that can run at the same time.
MaxHandlers == 2

Receipt(retailer, total, items, purchaseDate, purchaseTime) ==
    [retailer |-> retailer, total |-> total, items |-> items,
     purchaseDate |-> purchaseDate, purchaseTime |-> purchaseTime]

Item(shortDescription, price) ==
    [shortDescription |-> shortDescription, price |-> price]

Retailers == {<<>>, Bytes("M&M Corner Market")}

\* No total, a text that is no number, a negative total, a total written with
\* an exponent (100).
Totals == {<<>>, Bytes("x"), Bytes("-5"), Bytes("1e2")}

Dates == {<<>>, Bytes("2022-01-01"), Bytes("2022-01")}

Times == {<<>>, Bytes("14:00"), Bytes("16:00")}

\* The items drawn: an empty description with a bad price; "abc" followed by
\* a form feed (trimmed length 3); U+00E9 and "a", two characters in three
\* bytes, with a negative price; "abc " with a bad price; a no-break space
\* (U+00A0) and a space (trimmed length 0); " ab" (trimmed length 2).
Items ==
    {Item(<<>>, Bytes("x")),
     Item(Bytes("abc") \o <<12>>, Bytes("6.5")),
     Item(<<195, 169>> \o Bytes("a"), Bytes("-999")),
     Item(Bytes("abc "), Bytes("x")),
     Item(<<194, 160>> \o Bytes(" "), Bytes("6.5")),
     Item(Bytes(" ab"), Bytes("6.5"))}

ItemLists == UNION {[1..n -> Items] : n \in 0..MaxItems}

\* The "ValidInput" payload of TestProcessReceipts.
ValidInput ==
    Receipt(Bytes("Target"), Bytes("35.35"),
            <<Item(Bytes("Mountain Dew 12PK"), Bytes("6.49")),
              Item(Bytes("Emils Cheese Pizza"), Bytes("12.25")),
              Item(Bytes("Knorr Creamy Chicken"), Bytes("1.26")),
              Item(Bytes("Doritos Nacho Cheese"), Bytes("3.35")),
              Item(Bytes("Klarbrunn 12-PK 12 FL OZ"), Bytes("12.00"))>>,
            Bytes("2022-01-01"), Bytes("13:01"))

\* The "InvalidInput" payload of TestProcessReceipts.
InvalidInput == Receipt(Bytes("Target"), <<>>, <<>>, <<>>, Bytes("13:01"))

CoreReceipts ==
    {Receipt(r, t, is, d, h) :
        r \in Retailers, t \in Totals, is \in ItemLists, d \in Dates, h \in Times}
    \cup {ValidInput, InvalidInput}

IDs == 1..MaxIds

Handlers == 1..MaxHandlers

----------------------------------------------------------------------------
(* calculatePoints *)

\* countAlphanumeric: the number of ASCII letters and digits of s. A byte of
\* a character outside ASCII is none of them.
countAlphanumeric(s) ==
    Cardinality({i \in 1..Len(s) :
        \/ s[i] >= Byte("a") /\ s[i] <= Byte("z")
        \/ s[i] >= Byte("A") /\ s[i] <= Byte("Z")
        \/ s[i] >= Byte("0") /\ s[i] <= Byte("9")})

\* The points the model does not compute: those that depend on a "wide"
\* number, or on int(x) for an infinity, a NaN or a number outside the range
\* of int, which Go leaves to the implementation.
Inexact == "inexact"

\* Rule 2: err == nil && total == float64(int(total)). An infinity and the NaN
\* differ from every float64(int).
RoundDollarPoints(totalText) ==
    Only({IF total.kind = "wide" THEN Inexact
          ELSE IF /\ total.ok
                  /\ total.kind = "num"
                  /\ total.mant % Pow10(total.scale) = 0
          THEN 50 ELSE 0 :
          total \in {ParseFloat(totalText)}})

\* Rule 3: math.Mod(total*100, 25) == 0 on the float64 ParseFloat returned,
\* the error left aside: 0 next to a syntax error, an infinity next to a
\* range error. math.Mod of an infinity or the NaN is the NaN.
QuarterPoints(totalText) ==
    Only({IF total.kind = "wide" THEN Inexact
          ELSE IF /\ total.kind = "num"
                  /\ (total.mant * 4) % Pow10(total.scale) = 0
          THEN 25 ELSE 0 :
          total \in {ParseFloat(totalText)}})

\* Rule 4 with the multiplication before the division.
AfterItemPairsProductHalved(points, items) ==
    IF Len(items) > 0 THEN points + (Len(items) * 5) \div 2 ELSE 0

\* Rule 4: len(items)/2*5 added for a non-empty item sequence, and the points
\* so far replaced by zero for an empty one.
AfterItemPairs(points, items) ==
    IF Len(items) > 0 THEN points + (Len(items) \div 2) * 5 ELSE 0

\* Rule 5, the price of one item: if err == nil, int(math.Ceil(price * 0.2))
\* is added.
PricePoints(price) ==
    IF ~price.ok THEN 0
    ELSE IF price.kind = "num" THEN CeilFifth(price)
    ELSE Inexact

\* Rule 5, one item: trimmedLength%3 == 0 on the number of bytes of the
\* trimmed description, then the price parsed again.
ItemDescriptionPoints(item) ==
    IF Len(TrimSpace(item.shortDescription)) % 3 = 0
    THEN PricePoints(ParseFloat(item.price)) ELSE 0

\* The sum of the first n elements of a sequence of integers.
RECURSIVE SumTo(_, _)
SumTo(added, n) == IF n = 0 THEN 0 ELSE SumTo(added, n - 1) + added[n]

\* The model computes what rule 5 adds for the item: nothing, or the int of a
\* price of kind "num".
ExactItem(item) ==
    Len(TrimSpace(item.shortDescription)) % 3 = 0
        => \A price \in {ParseFloat(item.price)} :
               price.ok => price.kind = "num"

\* Rule 5: the loop over the items.
DescriptionPoints(items) ==
    IF \A i \in 1..Len(items) : ExactItem(items[i])
    THEN SumTo([i \in 1..Len(items) |-> ItemDescriptionPoints(items[i])],
               Len(items))
    ELSE Inexact

\* Rule 6 indexes the third field of the date: with fewer than three fields the
\* index is out of range and the goroutine panics.
DateIndexPanics(purchaseDate) == Len(Split(purchaseDate, Byte("-"))) < 3

\* Rule 6: the day converts and is odd.
OddDayPoints(purchaseDate) ==
    IF \E day \in {Atoi(Split(purchaseDate, Byte("-"))[3])} :
          day.ok /\ day.odd
    THEN 6 ELSE 0

\* Rule 7: the hour converts and lies in [14, 16).
AfternoonPoints(purchaseTime) ==
    IF \E hour \in {Atoi(Split(purchaseTime, Byte(":"))[1])} :
          hour.ok /\ hour.small /\ hour.val >= 14 /\ hour.val < 16
    THEN 10 ELSE 0

\* The score is computed exactly: the total, where rule 4 keeps the points of
\* rules 2 and 3, is not "wide", and every price rule 5 converts to int is of
\* kind "num". (Go leaves int(x) to the implementation for an infinity, a NaN
\* and a number outside the range of int.)
ExactScore(receipt) ==
    /\ Len(receipt.items) > 0 => ParseFloat(receipt.total).kind # "wide"
    /\ \A i \in 1..Len(receipt.items) : ExactItem(receipt.items[i])

\* calculatePoints: the points returned, or the panic of rule 6.
calculatePoints(receipt) ==
    IF DateIndexPanics(receipt.purchaseDate)
    THEN [panic |-> TRUE, points |-> 0]
    ELSE IF ~ExactScore(receipt)
    THEN [panic |-> FALSE, points |-> Inexact]
    ELSE [panic  |-> FALSE,
          points |-> AfterItemPairs(countAlphanumeric(receipt.retailer)
                                        + RoundDollarPoints(receipt.total)
                                        + QuarterPoints(receipt.total),
                                    receipt.items)
                     + DescriptionPoints(receipt.items)
                     + OddDayPoints(receipt.purchaseDate)
                     + AfternoonPoints(receipt.purchaseTime)]

----------------------------------------------------------------------------
(* processReceipts: validation *)

NoError == ""

\* The loop over the items: the description, then the price, item by item.
RECURSIVE ItemsError(_)
ItemsError(items) ==
    IF items = <<>> THEN NoError
    ELSE IF Head(items).shortDescription = <<>>
         THEN "Item short description is required"
    ELSE IF ~ParseFloat(Head(items).price).ok THEN "Invalid item price"
    ELSE ItemsError(Tail(items))

\* The checks with the purchase date looked at before the total.
ValidationErrorDateFirst(receipt) ==
    IF receipt.retailer = <<>> THEN "Retailer name is required"
    ELSE IF receipt.purchaseDate = <<>> THEN "Purchase date is required"
    ELSE IF receipt.total = <<>> THEN "Total amount is required"
    ELSE IF ~ParseFloat(receipt.total).ok THEN "Invalid total amount"
    ELSE IF receipt.purchaseTime = <<>> THEN "Purchase time is required"
    ELSE IF Len(receipt.items) = 0 THEN "Receipt should have at least one item"
    ELSE ItemsError(receipt.items)

\* The checks of processReceipts with the reason each returns.
ValidationError(receipt) ==
    IF receipt.retailer = <<>> THEN "Retailer name is required"
    ELSE IF receipt.total = <<>> THEN "Total amount is required"
    ELSE IF ~ParseFloat(receipt.total).ok THEN "Invalid total amount"
    ELSE IF receipt.purchaseDate = <<>> THEN "Purchase date is required"
    ELSE IF receipt.purchaseTime = <<>> THEN "Purchase time is required"
    ELSE IF Len(receipt.items) = 0 THEN "Receipt should have at least one item"
    ELSE ItemsError(receipt.items)

\* The loop variable after the loop body: item.Price = Sprintf("%.2f", price).
LoopItem(item) ==
    [item EXCEPT !.price = FormatPrice(ParseFloat(item.price))]

\* receipt.Items after the loop. "for _, item := range" copies each element
\* into the loop variable, so the assignment to item.Price changes the copy
\* LoopItem(items[i]) and the elements of the slice keep their text.
ItemsAfterLoop(items) ==
    [i \in 1..Len(items) |-> Only({items[i] : item \in {LoopItem(items[i])}})]

\* The receipt processReceipts passes to calculatePoints.
HandedReceipt(receipt) ==
    [receipt EXCEPT !.items = ItemsAfterLoop(receipt.items)]

----------------------------------------------------------------------------
(* The handlers, one request at a time *)

\* What a handler answers. kind is "json" for c.JSON, "panic" for a panic that
\* leaves the handler (gin's Recovery answers it), "return" for the value of a
\* direct call of calculatePoints, "none" before any answer.
Response(kind, status, error, id, points) ==
    [kind |-> kind, status |-> status, error |-> error, id |-> id,
     points |-> points]

NoResponse == Response("none", 0, NoError, 0, 0)

Request(op, receipt, id) == [op |-> op, receipt |-> receipt, id |-> id]

NoRequest == Request("none", <<>>, 0)

\* http.StatusOK, http.StatusBadRequest, http.StatusNotFound and the status of
\* gin's Recovery middleware.
StatusOK == 200

StatusBadRequest == 400

StatusNotFound == 404

StatusInternalServerError == 500

\* A map assignment that keeps the new entry alone.
StoreWriteFresh(m, id, points) == [k \in {id} |-> points]

\* receipts[receiptID] = points.
StoreWrite(m, id, points) ==
    [k \in DOMAIN m \cup {id} |-> IF k = id THEN points ELSE m[k]]

\* uuid.New(): an identifier no earlier call returned.
NewUUID(used) == IDs \ used

\* The request bodies made of the receipts of S: <<r>> binds to the receipt r,
\* and <<>> is a body c.ShouldBindJSON fails on.
Bodies(S) == {<<>>} \cup {<<r>> : r \in S}

\* POST /receipts/process with the given request body.
processReceipts(body) ==
    /\ req' = Request("process", body, 0)
    /\ UNCHANGED <<handlers, fatal>>
    /\ IF body = <<>>
       THEN /\ resp' = Response("json", StatusBadRequest,
                                "Failed to parse the request body", 0, 0)
            /\ handed' = <<>>
            /\ UNCHANGED receipts
       ELSE \E reason \in {ValidationError(body[1])} :
            IF reason # NoError
            THEN /\ resp' = Response("json", StatusBadRequest, reason, 0, 0)
                 /\ handed' = <<>>
                 /\ UNCHANGED receipts
            ELSE \E arg \in {HandedReceipt(body[1])} :
                 \E res \in {calculatePoints(arg)} :
                 IF res.panic
                 THEN /\ resp' = Response("panic", StatusInternalServerError,
                                          NoError, 0, 0)
                      /\ handed' = <<arg>>
                      /\ UNCHANGED receipts
                 ELSE \E id \in NewUUID(DOMAIN receipts) :
                          /\ receipts' = StoreWrite(receipts, id, res.points)
                          /\ resp' = Response("json", StatusOK, NoError, id, 0)
                          /\ handed' = <<arg>>

\* GET /receipts/:receipt_id/points.
getPoints(receiptID) ==
    /\ req' = Request("get", <<>>, receiptID)
    /\ resp' = IF receiptID \in DOMAIN receipts
               THEN Response("json", StatusOK, NoError, 0, receipts[receiptID])
               ELSE Response("json", StatusNotFound, "Receipt not found", 0, 0)
    /\ handed' = <<>>
    /\ UNCHANGED <<receipts, handlers, fatal>>

\* calculatePoints called with r by a caller other than processReceipts.
callCalculatePoints(r) ==
    \E res \in {calculatePoints(r)} :
        /\ req' = Request("calculate", <<r>>, 0)
        /\ resp' = IF res.panic THEN Response("panic", 0, NoError, 0, 0)
                   ELSE Response("return", 0, NoError, 0, res.points)
        /\ handed' = <<r>>
        /\ UNCHANGED <<receipts, handlers, fatal>>

IdleHandler == [pc |-> "idle", id |-> 0, points |-> 0, raced |-> FALSE,
                out |-> "none"]

\* The receipts a running server is sent: the two payloads of the test, a
\* receipt with a negative price, one with a two-field date, one whose item
\* description is blank.
ServerReceipts ==
    {ValidInput, InvalidInput,
     Receipt(Bytes("&"), Bytes("1.10"),
             <<Item(Bytes("abc"), Bytes("-999"))>>,
             Bytes("2022-01-02"), Bytes("13:01")),
     Receipt(Bytes("Target"), Bytes("9.25"),
             <<Item(Bytes("abc"), Bytes("6.5"))>>,
             Bytes("2022-01"), Bytes("13:01")),
     Receipt(Bytes("Target"), Bytes("9.00"),
             <<Item(Bytes("   "), Bytes("6.5"))>>,
             Bytes("2022-01-02"), Bytes("14:00"))}

\* A server handling one request after the other.
Init ==
    /\ receipts = << >>
    /\ req = NoRequest
    /\ resp = NoResponse
    /\ handed = <<>>
    /\ handlers = [h \in Handlers |-> IdleHandler]
    /\ fatal = FALSE

Submit == \E body \in Bodies(ServerReceipts) : processReceipts(body)

Lookup == \E id \in IDs : getPoints(id)

Next == Submit \/ Lookup

Spec == Init /\ [][Next]_vars

\* One operation applied to one drawn receipt: the handler processReceipts, or
\* calculatePoints called directly.
InitCore ==
    /\ receipts = << >>
    /\ req \in {Request("process", body, 0) : body \in Bodies(CoreReceipts)}
               \cup {Request("calculate", <<r>>, 0) : r \in CoreReceipts}
    /\ resp = NoResponse
    /\ handed = <<>>
    /\ handlers = [h \in Handlers |-> IdleHandler]
    /\ fatal = FALSE

SubmitDrawn ==
    /\ resp = NoResponse
    /\ req.op = "process"
    /\ processReceipts(req.receipt)

CalculateDrawn ==
    /\ resp = NoResponse
    /\ req.op = "calculate"
    /\ callCalculatePoints(req.receipt[1])

NextCore == SubmitDrawn \/ CalculateDrawn

SpecCore == InitCore /\ [][NextCore]_vars

----------------------------------------------------------------------------
(* The handlers as concurrent goroutines *)

\* gin serves every request in a goroutine of its own, and the handlers reach
\* the map receipts without a lock. A map assignment and a map read each take
\* time: they begin and they end, and other goroutines run in between. An
\* access that overlaps an assignment of another goroutine is a data race; the
\* Go runtime may stop the process ("fatal error: concurrent map writes",
\* "concurrent map read and map write"), and otherwise the outcome of the
\* access is not defined.

ConcReceipts == {ValidInput, InvalidInput} \cup
    {r \in ServerReceipts : r.retailer = Bytes("&")}

InitConc ==
    /\ receipts = << >>
    /\ req = NoRequest
    /\ resp = NoResponse
    /\ handed = <<>>
    /\ handlers = [h \in Handlers |-> IdleHandler]
    /\ fatal = FALSE

InFlight == {handlers[h].id : h \in Handlers} \ {0}

Accessing(h) == handlers[h].pc \in {"writing", "reading"}

\* The handlers whose running access races with a write of handler h.
RacingWithWrite(h) == {g \in Handlers \ {h} : Accessing(g)}

\* The handlers whose running access races with a read of handler h.
RacingWithRead(h) == {g \in Handlers \ {h} : handlers[g].pc = "writing"}

\* processReceipts up to the map assignment: binding, validation, uuid.New and
\* calculatePoints touch nothing shared.
ProcessStart(h) ==
    \E body \in Bodies(ConcReceipts) :
        /\ ~fatal
        /\ handlers[h].pc = "idle"
        /\ IF body = <<>>
           THEN handlers' = [handlers EXCEPT ![h] =
                               [IdleHandler EXCEPT !.out =
                                   "Failed to parse the request body"]]
           ELSE \E reason \in {ValidationError(body[1])} :
                IF reason # NoError
                THEN handlers' = [handlers EXCEPT ![h] =
                                    [IdleHandler EXCEPT !.out = reason]]
                ELSE \E res \in {calculatePoints(HandedReceipt(body[1]))} :
                     IF res.panic
                     THEN handlers' = [handlers EXCEPT ![h] =
                                         [IdleHandler EXCEPT !.out = "panic"]]
                     ELSE \E id \in NewUUID(DOMAIN receipts \cup InFlight) :
                              handlers' = [handlers EXCEPT ![h] =
                                  [pc |-> "assign", id |-> id,
                                   points |-> res.points, raced |-> FALSE,
                                   out |-> "none"]]
        /\ UNCHANGED <<receipts, req, resp, handed, fatal>>

\* receipts[receiptID] = points begins.
MapAssignBegin(h) ==
    /\ ~fatal
    /\ handlers[h].pc = "assign"
    /\ handlers' = [g \in Handlers |->
                      IF g = h
                      THEN [handlers[h] EXCEPT
                              !.pc = "writing",
                              !.raced = RacingWithWrite(h) # {}]
                      ELSE IF g \in RacingWithWrite(h)
                      THEN [handlers[g] EXCEPT !.raced = TRUE]
                      ELSE handlers[g]]
    /\ UNCHANGED <<receipts, req, resp, handed, fatal>>

\* receipts[receiptID] = points ends: the entry is in the map, unless the
\* assignment raced; then the runtime may have stopped the process, or the
\* entry may be lost.
MapAssignEnd(h) ==
    /\ ~fatal
    /\ handlers[h].pc = "writing"
    /\ \E outcome \in IF handlers[h].raced THEN {"stored", "lost", "fatal"}
                      ELSE {"stored"} :
          /\ receipts' = IF outcome = "stored"
                         THEN StoreWrite(receipts, handlers[h].id,
                                         handlers[h].points)
                         ELSE receipts
          /\ fatal' = (outcome = "fatal")
          /\ handlers' = [handlers EXCEPT ![h] =
                            [IdleHandler EXCEPT !.out = outcome]]
    /\ UNCHANGED <<req, resp, handed>>

\* points, ok := receipts[receiptID] begins.
MapAccessBegin(h) ==
    \E id \in IDs :
        /\ ~fatal
        /\ handlers[h].pc = "idle"
        /\ handlers' = [g \in Handlers |->
                          IF g = h
                          THEN [pc |-> "reading", id |-> id, points |-> 0,
                                raced |-> RacingWithRead(h) # {},
                                out |-> "none"]
                          ELSE IF g \in RacingWithRead(h)
                          THEN [handlers[g] EXCEPT !.raced = TRUE]
                          ELSE handlers[g]]
        /\ UNCHANGED <<receipts, req, resp, handed, fatal>>

\* points, ok := receipts[receiptID] ends: the entry or its absence, unless the
\* read raced; then the runtime may have stopped the process, or the read may
\* have seen the entry of the assignment in progress or missed an entry.
MapAccessEnd(h) ==
    /\ ~fatal
    /\ handlers[h].pc = "reading"
    /\ \E outcome \in IF handlers[h].raced
                      THEN {"found", "missing", "fatal"}
                      ELSE IF handlers[h].id \in DOMAIN receipts
                      THEN {"found"} ELSE {"missing"} :
          /\ fatal' = (outcome = "fatal")
          /\ handlers' = [handlers EXCEPT ![h] =
                            [IdleHandler EXCEPT !.out = outcome]]
    /\ UNCHANGED <<receipts, req, resp, handed>>

NextConc ==
    \E h \in Handlers :
        \/ ProcessStart(h)
        \/ MapAssignBegin(h)
        \/ MapAssignEnd(h)
        \/ MapAccessBegin(h)
        \/ MapAccessEnd(h)

SpecConc == InitConc /\ [][NextConc]_vars

----------------------------------------------------------------------------
(* Properties *)

\* The state after processReceipts answered the submission of a record.
Submitted == req.op = "process" /\ req.receipt # <<>> /\ resp.kind # "none"

Accepted == Submitted /\ resp.kind = "json" /\ resp.status = StatusOK

Rejected == Submitted /\ resp.kind = "json" /\ resp.status = StatusBadRequest

\* The state after a direct call of calculatePoints returned.
Returned == req.op = "calculate" /\ resp.kind = "return"

\* The score of the request just handled, where there is one.
Score == IF req.op = "process" THEN receipts[resp.id] ELSE resp.points

\* The checks of the validator in the order of the claim, each with its
\* reason: the six checks of the header, then two checks for every item.
Checks(r) ==
    <<r.retailer # <<>>, r.total # <<>>, ParseFloat(r.total).ok,
      r.purchaseDate # <<>>, r.purchaseTime # <<>>, Len(r.items) > 0>>
    \o [k \in 1..(2 * Len(r.items)) |->
          IF k % 2 = 1 THEN r.items[(k + 1) \div 2].shortDescription # <<>>
          ELSE ParseFloat(r.items[k \div 2].price).ok]

Reasons(r) ==
    <<"Retailer name is required", "Total amount is required",
      "Invalid total amount", "Purchase date is required",
      "Purchase time is required", "Receipt should have at least one item">>
    \o [k \in 1..(2 * Len(r.items)) |->
          IF k % 2 = 1 THEN "Item short description is required"
          ELSE "Invalid item price"]

\* The failing checks, by their place in the order.
Failing(r) ==
    LET checks == Checks(r)
    IN  {k \in 1..Len(checks) : ~checks[k]}

\* C1: a submission is rejected exactly when one of the checks fails, and the
\* reason returned is the reason of the first failing check in the order
\* retailer, total present, total parses, date, time, items non-empty, then
\* description and price of each item in sequence.
C1_FirstFailureReported ==
    Submitted =>
        LET r       == req.receipt[1]
            failing == Failing(r)
        IN  IF failing = {}
            THEN ~Rejected
            ELSE Rejected /\ resp.error = Reasons(r)[Min(failing)]

\* C1 witness: empty total, empty items and empty date together were rejected
\* with the reason of the total.
C1_Witness ==
    /\ Submitted
    /\ req.receipt[1] = InvalidInput
    /\ Cardinality(Failing(InvalidInput)) >= 3
    /\ resp.error = "Total amount is required"

\* C2: no stored score and no score calculatePoints returns is negative.
C2_ScoreNonNegative ==
    /\ \A id \in DOMAIN receipts : receipts[id] >= 0
    /\ Returned => resp.points >= 0

\* The text parses to a number below zero or to the negative infinity. (Of a
\* "wide" number the model does not know whether it is zero.)
NegativeText(s) ==
    LET p == ParseFloat(s)
    IN  p.ok /\ p.neg /\ (p.kind = "inf" \/ (p.kind = "num" /\ p.mant > 0))

\* C3: a submission whose total is below zero is rejected with "Invalid total
\* amount", one whose item price is below zero is not accepted, and a record
\* handed to calculatePoints by processReceipts has no amount below zero.
C3_NegativeAmountsRejected ==
    Submitted =>
        LET r == req.receipt[1]
        IN  /\ (r.retailer # <<>> /\ NegativeText(r.total))
                  => (Rejected /\ resp.error = "Invalid total amount")
            /\ (\E i \in 1..Len(r.items) : NegativeText(r.items[i].price))
                  => Rejected
            /\ handed # <<>> =>
                  /\ ~NegativeText(handed[1].total)
                  /\ \A i \in 1..Len(handed[1].items) :
                        ~NegativeText(handed[1].items[i].price)

\* C4: scoring a record whose date has fewer than three dash-separated fields
\* completes without a panic.
C4_ShortDateDoesNotCrash ==
    (handed # <<>> /\ Len(Split(handed[1].purchaseDate, Byte("-"))) < 3)
        => resp.kind # "panic"

\* C5: calculatePoints called directly with an empty item sequence returns 0.
C5_EmptyItemsScoreZero ==
    (Returned /\ req.receipt[1].items = <<>>) => resp.points = 0

\* s is made of white space characters only.
RECURSIVE IsBlank(_)
IsBlank(s) ==
    Only({\/ v = <<>>
          \/ \E w \in Space :
                HasPrefix(v, w) /\ IsBlank(SubSeq(v, Len(w) + 1, Len(v))) :
          v \in {s}})

\* The number of bytes of s between its longest blank beginning and the
\* longest blank ending of the rest.
TrimmedLen(s) ==
    Only({Only({Len(v) - lead
                - Max({k \in 0..(Len(v) - lead) :
                         IsBlank(SubSeq(v, Len(v) - k + 1, Len(v)))}) :
                lead \in {Max({k \in 0..Len(v) : IsBlank(SubSeq(v, 1, k))})}}) :
          v \in {s}})

\* The price text parses to a finite number the model keeps exactly.
ExactPrice(s) == ParseFloat(s).ok /\ ParseFloat(s).kind = "num"

\* The points of rule 5 as the claim has them: ceil(price * 0.2) for each item
\* whose trimmed description length is a non-zero multiple of 3, nothing for
\* any other item.
RECURSIVE Rule5Sum(_)
Rule5Sum(items) ==
    IF items = <<>> THEN 0
    ELSE LET n == TrimmedLen(Head(items).shortDescription)
         IN  (IF ExactPrice(Head(items).price) /\ n % 3 = 0 /\ n # 0
              THEN CeilFifth(ParseFloat(Head(items).price)) ELSE 0)
             + Rule5Sum(Tail(items))

\* The points of the rules other than rule 5.
OtherRules(r) ==
    AfterItemPairs(countAlphanumeric(r.retailer) + RoundDollarPoints(r.total)
                       + QuarterPoints(r.total), r.items)
    + OddDayPoints(r.purchaseDate) + AfternoonPoints(r.purchaseTime)

\* C6: on a receipt the validator accepts, rule 5 adds ceil(price * 0.2) for
\* an item exactly when its trimmed description length is a non-zero multiple
\* of 3, and nothing for an item whose description is all white space. (Stated
\* on the receipts whose score the model computes.)
C6_NonZeroMultipleOnly ==
    ((Accepted \/ Returned) /\ ValidationError(req.receipt[1]) = NoError
        /\ ExactScore(handed[1])) =>
        Score = OtherRules(handed[1]) + Rule5Sum(handed[1].items)

\* C7: the "ValidInput" receipt of the test is accepted and the score stored
\* for it is 28 = 6 retailer + 0 round dollar + 0 quarter + 10 item pairs
\* + 6 description lengths + 6 odd day + 0 afternoon.
C7_ExampleScores28 ==
    (Submitted /\ req.receipt[1] = ValidInput) =>
        /\ Accepted
        /\ resp.id \in DOMAIN receipts
        /\ receipts[resp.id] = 28
        /\ countAlphanumeric(ValidInput.retailer) = 6
        /\ RoundDollarPoints(ValidInput.total) = 0
        /\ QuarterPoints(ValidInput.total) = 0
        /\ AfterItemPairs(6, ValidInput.items) = 6 + 10
        /\ DescriptionPoints(ValidInput.items) = 6
        /\ OddDayPoints(ValidInput.purchaseDate) = 6
        /\ AfternoonPoints(ValidInput.purchaseTime) = 0

\* C7 witness: the receipt was submitted to a store that held entries already,
\* and was answered with an identifier.
C7_Witness ==
    /\ Accepted
    /\ req.receipt[1] = ValidInput
    /\ Cardinality(DOMAIN receipts) >= 2

\* C8: a step of the server keeps every entry of the store as it is; a step
\* that accepts a submission adds exactly one entry, under the identifier
\* answered, which was not in the store, holding the score of the submitted
\* receipt; every other step (a rejection, a panic, a lookup) leaves the store
\* unchanged.
C8_StoreAppendOnly ==
    [][/\ \A k \in DOMAIN receipts :
             k \in DOMAIN receipts' /\ receipts'[k] = receipts[k]
       /\ IF req'.op = "process" /\ resp'.kind = "json"
             /\ resp'.status = StatusOK
          THEN /\ resp'.id \notin DOMAIN receipts
               /\ DOMAIN receipts' = DOMAIN receipts \cup {resp'.id}
               /\ receipts'[resp'.id] =
                     calculatePoints(req'.receipt[1]).points
          ELSE receipts' = receipts]_vars

\* C8 witness: two submissions were accepted under two identifiers, and a
\* submission was rejected after them.
C8_Witness ==
    /\ Cardinality(DOMAIN receipts) = 2
    /\ Rejected

\* C9: no state has a map assignment of one handler in progress together with
\* a map assignment or a map read of another handler.
C9_NoOverlappingMapAccess ==
    \A h \in Handlers : \A g \in Handlers \ {h} :
        ~(handlers[h].pc = "writing" /\ Accessing(g))

\* The text has a point followed by exactly two digits at its end.
TwoFractionalDigits(s) ==
    /\ Len(s) >= 4
    /\ s[Len(s) - 2] = Byte(".")
    /\ IsDigit(s[Len(s) - 1]) /\ IsDigit(s[Len(s)])
    /\ \A i \in 1..(Len(s) - 3) : s[i] # Byte(".")

\* The two texts parse to the same finite number.
SameValue(s, t) ==
    LET p == ParseFloat(s)
        q == ParseFloat(t)
    IN  /\ ExactPrice(s) /\ ExactPrice(t)
        /\ p.mant = q.mant /\ p.scale = q.scale
        /\ (p.mant # 0 => p.neg = q.neg)

\* C10: the record processReceipts hands to calculatePoints has every item
\* price written with exactly two fractional digits, and every price has the
\* value of the price submitted.
C10_HandedPricesNormalized ==
    (Submitted /\ handed # <<>>) =>
        \A i \in 1..Len(handed[1].items) :
            /\ TwoFractionalDigits(handed[1].items[i].price)
            /\ SameValue(handed[1].items[i].price,
                         req.receipt[1].items[i].price)

====
